---- MODULE Spec2Model ----
(***************************************************************************)
(* Article Summary Generator: the extraction pipeline (fetchArticleAction) *)
(* and the URL submission path (UrlInput form, HomePage handler); the      *)
(* layout pipeline (wrapText, generatePngAction); the stored summaries     *)
(* (updateSummaryAction, refineSummaryAction).                             *)
(*                                                                         *)
(* Strings are run-length encoded: a string is a sequence of runs, a run   *)
(* [ch, n] standing for n >= 1 copies of the character ch, and adjacent    *)
(* runs hold different characters.  Every string operation below is the    *)
(* JavaScript operation of the source computed on that encoding; Expand    *)
(* gives the plain character sequence, and the properties are stated on    *)
(* it.                                                                     *)
(***************************************************************************)
EXTENDS Integers, Sequences, FiniteSets, TLC

(***************************************************************************)
(* Bounds                                                                  *)
(***************************************************************************)
MaxNodes == 2
MaxSubmits == 2
MaxRuns == 4
MaxLines == 3
MaxUpdates == 3
MaxSaves == 1

(***************************************************************************)
(* Strings                                                                 *)
(***************************************************************************)
NL == "\n"
SP == " "
Run(c, k) == [ch |-> c, n |-> k]
Letters == <<"a", "b", "c", "d", "e">>

IsSpace(c) == c \in {SP, NL}

RECURSIVE StrLen(_)
StrLen(s) == IF s = <<>> THEN 0 ELSE s[1].n + StrLen(Tail(s))

RECURSIVE Expand(_)
Expand(s) ==
  IF s = <<>> THEN <<>>
  ELSE [i \in 1..s[1].n |-> s[1].ch] \o Expand(Tail(s))

Concat(s, t) ==
  IF s = <<>> THEN t
  ELSE IF t = <<>> THEN s
  ELSE IF s[Len(s)].ch = t[1].ch
       THEN SubSeq(s, 1, Len(s) - 1)
              \o <<Run(t[1].ch, s[Len(s)].n + t[1].n)>> \o Tail(t)
       ELSE s \o t

RECURSIVE TrimStart(_)
TrimStart(s) ==
  IF s /= <<>> /\ IsSpace(s[1].ch) THEN TrimStart(Tail(s)) ELSE s

RECURSIVE TrimEnd(_)
TrimEnd(s) ==
  IF s /= <<>> /\ IsSpace(s[Len(s)].ch)
  THEN TrimEnd(SubSeq(s, 1, Len(s) - 1)) ELSE s

\* String.prototype.trim
Trim(s) == TrimEnd(TrimStart(s))

\* Array.prototype.join("\n")
RECURSIVE JoinNL(_)
JoinNL(ts) ==
  IF ts = <<>> THEN <<>>
  ELSE IF Len(ts) = 1 THEN ts[1]
  ELSE Concat(Concat(ts[1], <<Run(NL, 1)>>), JoinNL(Tail(ts)))

\* replace(/\n{2,}/g, "\n"): every maximal run of two or more newlines
\* becomes one newline
CollapseNewlinesFirstOnly(s) ==
  LET hits == {i \in 1..Len(s) : s[i].ch = NL /\ s[i].n >= 2}
  IN  [i \in 1..Len(s) |->
         IF i \in hits /\ (\A j \in hits : i <= j) THEN Run(NL, 1) ELSE s[i]]

CollapseNewlines(s) ==
  [i \in 1..Len(s) |->
     IF s[i].ch = NL /\ s[i].n >= 2 THEN Run(NL, 1) ELSE s[i]]

(***************************************************************************)
(* URLs.  An input string is scheme ":" "//" host with either part         *)
(* possibly missing; the empty string has both parts empty.                *)
(***************************************************************************)
Urls == [scheme : {"", "http", "mailto"}, host : {"", "example.com"}]

SpecialSchemes == {"http", "https"}

\* new URL(url) does not throw: there is a scheme, and a special scheme
\* has a host
URLParses(u) ==
  /\ u.scheme /= ""
  /\ (u.scheme \in SpecialSchemes => u.host /= "")

\* the protocols the HTTP client can request
Requestable(u) == u.scheme \in SpecialSchemes

(***************************************************************************)
(* Documents.  A document is the sequence of its elements below <body> in  *)
(* document order (preorder); parent 0 is the body; text is the text node  *)
(* that opens the element, before its first child.                         *)
(***************************************************************************)
HeadingTags == {"h1", "h2", "h3", "h4", "h5", "h6"}
TextTags == {"p"} \cup HeadingTags
RawTextTags == {"script", "style", "iframe", "noscript"}
ContainerTags == {"article", "main", "div", "nav", "header", "footer"}
MinLength == 50
RemoveTagsNoScript == {"style", "iframe", "noscript", "nav", "footer", "header"}
RemoveTags == {"script", "style", "iframe", "noscript", "nav", "footer", "header"}

\* the texts an element of the bounded documents may open with
TextShapes(c) ==
  { <<Run(SP, 2)>>,
    <<Run(c, 25)>>,
    <<Run(c, 50)>>,
    <<Run(SP, 2), Run(c, 49), Run(NL, 1)>>,
    <<Run(c, 1), Run(NL, 48), Run(c, 1)>>,
    <<Run(c, 20), Run(NL, 2), Run(c, 20), Run(NL, 3), Run(c, 5)>> }

RECURSIVE Ancestors(_, _)
Ancestors(d, i) ==
  IF i = 0 THEN {} ELSE {d[i].parent} \cup Ancestors(d, d[i].parent)

\* the HTML parser never nests these
ValidChild(childTag, parentTag) ==
  /\ parentTag \notin RawTextTags
  /\ parentTag = "p" => childTag \in RawTextTags
  /\ parentTag \in HeadingTags => childTag \notin HeadingTags

DocTags == ContainerTags \cup RawTextTags \cup {"p", "h2"}

\* containers open with no text, raw-text elements with their content
TextsFor(t, c) ==
  IF t \in ContainerTags THEN {<<>>}
  ELSE IF t \in RawTextTags THEN {<<Run(c, 50)>>}
  ELSE TextShapes(c)

\* the elements that may stand at place i of a document
NodesAt(i) ==
  { nd \in [tag : DocTags, parent : 0..(i - 1),
            text : TextShapes(Letters[i]) \cup {<<>>}] :
      nd.text \in TextsFor(nd.tag, Letters[i]) }

\* nd may follow the elements d in document order
ValidAfter(d, nd) ==
  LET i == Len(d) + 1
      parents == IF i = 1 THEN {0} ELSE {i - 1} \cup Ancestors(d, i - 1)
      tagOf(q) == IF q = 0 THEN "body" ELSE d[q].tag
  IN  nd.parent \in parents /\ ValidChild(nd.tag, tagOf(nd.parent))

\* a document of k elements is chosen element after element: the choice
\* of the first k - 1 elements, then the k-th
RECURSIVE DocOfChoice(_, _)
DocOfChoice(q, k) ==
  IF k = 0 THEN <<>> ELSE Append(DocOfChoice(q[1], k - 1), q[2])

RECURSIVE DocChoices(_)
DocChoices(k) ==
  IF k = 0 THEN {<<>>}
  ELSE {q \in DocChoices(k - 1) \X NodesAt(k) :
          ValidAfter(DocOfChoice(q[1], k - 1), q[2])}

(***************************************************************************)
(* cheerio operations on a document d                                      *)
(***************************************************************************)
\* $("script, style, iframe, noscript, nav, footer, header").remove():
\* the elements left, i.e. those neither matched nor below a matched one
Alive(d) ==
  {i \in 1..Len(d) :
     \A j \in {i} \cup (Ancestors(d, i) \ {0}) : d[j].tag \notin RemoveTags}

\* $(tag) on the reduced document
Select(d, alive, t) == {i \in alive : d[i].tag = t}

\* $(element).text(): the text nodes of the subtree in document order
RECURSIVE SubtreeText(_, _, _, _)
SubtreeText(d, alive, r, i) ==
  IF i > Len(d) THEN <<>>
  ELSE IF i \in alive /\ (i = r \/ r \in Ancestors(d, i))
       THEN Concat(d[i].text, SubtreeText(d, alive, r, i + 1))
       ELSE SubtreeText(d, alive, r, i + 1)

ElementText(d, alive, i) == SubtreeText(d, alive, i, i)

\* articleContent: article, else main, else body
ContentRootMainFirst(d, alive) ==
  IF Select(d, alive, "main") /= {} THEN Select(d, alive, "main")
  ELSE IF Select(d, alive, "article") /= {} THEN Select(d, alive, "article")
  ELSE {0}

ContentRoot(d, alive) ==
  IF Select(d, alive, "article") /= {} THEN Select(d, alive, "article")
  ELSE IF Select(d, alive, "main") /= {} THEN Select(d, alive, "main")
  ELSE {0}

\* the set as the sequence of its members in ascending order
RECURSIVE Ascending(_)
Ascending(S) ==
  IF S = {} THEN <<>>
  ELSE LET m == CHOOSE x \in S : \A y \in S : x <= y
       IN  <<m>> \o Ascending(S \ {m})

RECURSIVE Reverse(_)
Reverse(q) == IF q = <<>> THEN <<>> ELSE Append(Reverse(Tail(q)), q[1])

\* articleContent.find("p, h1, h2, h3, h4, h5, h6").toArray(): the matching
\* elements below a root, once each, in document order
FindTextElementsReversed(d, alive, roots) ==
  Reverse(Ascending({i \in alive : /\ d[i].tag \in TextTags
                                    /\ Ancestors(d, i) \cap roots /= {}}))

FindTextElements(d, alive, roots) ==
  Ascending({i \in alive : /\ d[i].tag \in TextTags
                           /\ Ancestors(d, i) \cap roots /= {}})

\* .map(element => $(element).text().trim()).filter(text => text.length > 0)
\*   .join("\n")
CollectText(d, alive, els) ==
  LET texts == [k \in 1..Len(els) |-> Trim(ElementText(d, alive, els[k]))]
  IN  JoinNL(SelectSeq(texts, LAMBDA t : StrLen(t) > 0))

(***************************************************************************)
(* fetchArticleAction                                                      *)
(***************************************************************************)
NoTrace == [loaded |-> FALSE, root |-> {}, elements |-> <<>>,
            articleText |-> <<>>]

Failure(k, st) ==
  [thrown |-> FALSE, isSuccess |-> FALSE, kind |-> k, status |-> st,
   hasData |-> FALSE, text |-> <<>>, trace |-> NoTrace]

NoResult == Failure("none", 0)

\* the HTTP statuses the server may answer with (redirects are followed by
\* the client and are no final answer)
Statuses == {200, 204, 304, 401, 403, 404, 500}

\* axios resolves the promise for 2xx and rejects it otherwise
ValidateStatus(st) == st >= 200 /\ st < 300

\* what the GET may come back with: a response, or none at all
HtmlResponse(d) ==
  [kind |-> "response", status |-> 200, html |-> TRUE, doc |-> d]

Responses ==
  { [kind |-> "response", status |-> st, html |-> h, doc |-> <<>>] :
      st \in Statuses, h \in BOOLEAN }
    \cup
  { [kind |-> "noResponse", status |-> 0, html |-> FALSE, doc |-> <<>>] }

\* lines 63-102: the document is loaded, reduced, and its text extracted
SufficientStrict(text) == StrLen(text) > MinLength

Sufficient(text) == ~(StrLen(text) < MinLength)

Normalize(text) == Trim(CollapseNewlines(text))

Extract(d) ==
  LET alive == Alive(d)
      root == ContentRoot(d, alive)
      els == FindTextElements(d, alive, root)
      articleText == CollectText(d, alive, els)
      tr == [loaded |-> TRUE, root |-> root, elements |-> els,
             articleText |-> articleText]
  IN  IF ~Sufficient(articleText)
      THEN [Failure("InsufficientContent", 0) EXCEPT !.trace = tr]
      ELSE [thrown |-> FALSE, isSuccess |-> TRUE, kind |-> "Success",
            status |-> 0, hasData |-> TRUE, text |-> Normalize(articleText),
            trace |-> tr]

\* lines 103-139: the catch block.  err is what the try block threw:
\* axios says whether it is an axios error, with a response or a request
CatchBlockOnly401(err) ==
  IF err.axios /\ err.hasResponse
  THEN IF err.status = 401 THEN Failure("AccessDenied", 0)
       ELSE IF err.status = 404 THEN Failure("NotFound", 0)
       ELSE Failure("FetchFailed", err.status)
  ELSE IF err.axios /\ err.hasRequest THEN Failure("NetworkError", 0)
  ELSE Failure("Unexpected", 0)

CatchBlockRethrow(err) ==
  IF err.axios /\ err.hasResponse
  THEN IF err.status \in {401, 403} THEN Failure("AccessDenied", 0)
       ELSE IF err.status = 404 THEN Failure("NotFound", 0)
       ELSE Failure("FetchFailed", err.status)
  ELSE IF err.axios /\ err.hasRequest THEN Failure("NetworkError", 0)
  ELSE [Failure("Unexpected", 0) EXCEPT !.thrown = TRUE]

CatchBlock(err) ==
  IF err.axios /\ err.hasResponse
  THEN IF err.status \in {401, 403} THEN Failure("AccessDenied", 0)
       ELSE IF err.status = 404 THEN Failure("NotFound", 0)
       ELSE Failure("FetchFailed", err.status)
  ELSE IF err.axios /\ err.hasRequest THEN Failure("NetworkError", 0)
  ELSE Failure("Unexpected", 0)

AxiosError(hasResp, st, hasReq) ==
  [axios |-> TRUE, hasResponse |-> hasResp, status |-> st, hasRequest |-> hasReq]

OtherError ==
  [axios |-> FALSE, hasResponse |-> FALSE, status |-> 0, hasRequest |-> FALSE]

\* lines 48-139 once the GET has come back with r.  A body that is no HTML
\* text is no string for cheerio.load: it throws (loadThrows) or loads an
\* empty document
AfterResponse(r, loadThrows) ==
  IF r.kind = "noResponse" THEN CatchBlock(AxiosError(FALSE, 0, TRUE))
  ELSE IF ~ValidateStatus(r.status)
       THEN CatchBlock(AxiosError(TRUE, r.status, TRUE))
  ELSE IF r.status /= 200 THEN Failure("FetchFailed", r.status)
  ELSE IF r.html THEN Extract(r.doc)
  ELSE IF loadThrows THEN CatchBlock(OtherError)
  ELSE Extract(<<>>)

(***************************************************************************)
(* wrapText                                                                *)
(***************************************************************************)
\* ctx.measureText(s).width: the advance widths of the characters add up.
\* The widths are those of a 42px font, in pixels
CharWidth(c) ==
  CASE c = "i" -> 10
    [] c = SP -> 10
    [] c = "W" -> 40
    [] OTHER -> 20

RECURSIVE MeasureText(_)
MeasureText(s) ==
  IF s = <<>> THEN 0 ELSE s[1].n * CharWidth(s[1].ch) + MeasureText(Tail(s))

\* String.prototype.split(sep) for a one-character separator: a run of n
\* separators lies between n + 1 pieces, of which the inner ones are empty;
\* the pieces of a longer string are those of its halves, the last piece
\* of the first half continued by the first piece of the second
RECURSIVE Split(_, _)
Split(s, sep) ==
  IF s = <<>> THEN << <<>> >>
  ELSE IF Len(s) = 1
  THEN IF s[1].ch = sep THEN [i \in 1..(s[1].n + 1) |-> <<>>] ELSE <<s>>
  ELSE LET half == Len(s) \div 2
           left == Split(SubSeq(s, 1, half), sep)
           right == Split(SubSeq(s, half + 1, Len(s)), sep)
       IN  SubSeq(left, 1, Len(left) - 1)
             \o <<left[Len(left)] \o right[1]>> \o Tail(right)

\* `${currentLine} ${word}`
TestLine(currentLine, word) ==
  Concat(Concat(currentLine, <<Run(SP, 1)>>), word)

\* line 56: testWidth <= maxWidth
FitsStrictly(testWidth, maxWidth) == testWidth < maxWidth

Fits(testWidth, maxWidth) == testWidth <= maxWidth

\* line 60: the line that the word which did not fit starts
StartLineEmpty(word) == <<>>

StartLine(word) == word

\* lines 52-61: one pass of the loop body, for one word
WrapStepOneWordPerLine(state, word, maxWidth, x) ==
  [currentLine |-> StartLine(word),
   lines |-> Append(state.lines, [text |-> state.currentLine, x |-> x])]

WrapStep(state, word, maxWidth, x) ==
  LET testLine == TestLine(state.currentLine, word)
  IN  IF Fits(MeasureText(testLine), maxWidth)
      THEN [currentLine |-> testLine, lines |-> state.lines]
      ELSE [currentLine |-> StartLine(word),
            lines |-> Append(state.lines,
                             [text |-> state.currentLine, x |-> x])]

\* lines 51-62: the loop over words[from..to], as the loop over the first
\* half of the range followed by the loop over the second; the first half
\* is finished (its lines are there) before the second is entered
RECURSIVE WrapLoop(_, _, _, _, _, _)
WrapLoop(words, from, to, state, maxWidth, x) ==
  IF from > to THEN state
  ELSE IF from = to THEN WrapStep(state, words[from], maxWidth, x)
  ELSE LET mid == (from + to) \div 2
           first == WrapLoop(words, from, mid, state, maxWidth, x)
       IN  IF Len(first.lines) >= Len(state.lines)
           THEN WrapLoop(words, mid + 1, to, first, maxWidth, x)
           ELSE first

\* lines 46-67: the first word starts the first line; the line that is
\* current after the loop is pushed last
wrapText(text, maxWidth, x) ==
  LET words == Split(text, SP)
      last == WrapLoop(words, 2, Len(words),
                       [currentLine |-> words[1], lines |-> <<>>], maxWidth, x)
  IN  Append(last.lines, [text |-> last.currentLine, x |-> x])

\* the bounded bullet strings: up to MaxRuns runs of one or two characters
WrapRuns == {Run(c, k) : c \in {"i", "W", SP}, k \in 1..2}

WrapTexts ==
  UNION { {s \in [1..k -> WrapRuns] :
             \A i \in 1..(k - 1) : s[i].ch /= s[i + 1].ch} : k \in 0..MaxRuns }

WrapWidths == {40, 60, 100, 2300}

NoWrap == [pc |-> "idle", text |-> <<>>, maxWidth |-> 0, x |-> 0, lines |-> <<>>]

(***************************************************************************)
(* generatePngAction: the layout.  Horizontal positions are in pixels,     *)
(* vertical positions in tenths of a pixel (height * 0.175 = 613.9)        *)
(***************************************************************************)
width == 2480
height == 3508
headlineFontSize == 72
subheadlineFontSize == 54
bulletFontSize == 42
margin == 60
bulletIndent == 30

Tenths(px) == px * 10

headlineY == (Tenths(height) * 5) \div 100
subheadlineY == (Tenths(height) * 125) \div 1000
bulletStartY == (Tenths(height) * 175) \div 1000
maxTextWidth == width - 2 * margin

\* line 144: bulletFontSize * 1.2
lineHeight == (Tenths(bulletFontSize) * 12) \div 10

\* line 158: lineHeight * 0.5
bulletGapFull == lineHeight

bulletGap == (lineHeight * 5) \div 10

\* String.prototype.substring(k)
RECURSIVE Substring(_, _)
Substring(s, k) ==
  IF k = 0 \/ s = <<>> THEN s
  ELSE IF s[1].n <= k THEN Substring(Tail(s), k - s[1].n)
       ELSE <<Run(s[1].ch, s[1].n - k)>> \o Tail(s)

\* startsWith("- ")
StartsWithMarker(s) ==
  /\ Len(s) >= 2
  /\ s[1] = Run("-", 1)
  /\ s[2].ch = SP

\* lines 135-138: the bullet points of a summary text
BulletPointsUnfiltered(summaryText) ==
  LET lines == Split(summaryText, NL)
  IN  [i \in 1..Len(lines) |-> Substring(Trim(lines[i]), 2)]

BulletPoints(summaryText) ==
  LET lines == Split(summaryText, NL)
      marked == SelectSeq(lines, LAMBDA l : StartsWithMarker(Trim(l)))
  IN  [i \in 1..Len(marked) |-> Substring(Trim(marked[i]), 2)]

\* line 148: the bullet symbol
BulletSymbol == <<Run("*", 1)>>

\* the calls on the 2D context, in the order in which they are issued
FillRect(style, x, y, w, h) ==
  [op |-> "fillRect", kind |-> "background", style |-> style, text |-> <<>>,
   x |-> x, y |-> y, w |-> w, h |-> h]

FillText(kind, text, x, y) ==
  [op |-> "fillText", kind |-> kind, style |-> "#000000", text |-> text,
   x |-> x, y |-> y, w |-> 0, h |-> 0]

\* lines 152-155: the wrapped lines of one bullet: line j is drawn after
\* j - 1 advances of the cursor, which ends Len(lines) advances lower
DrawLines(lines, currentY) ==
  [calls |-> [j \in 1..Len(lines) |->
                FillText("line", lines[j].text, lines[j].x,
                         currentY + (j - 1) * lineHeight)],
   currentY |-> currentY + Len(lines) * lineHeight]

\* lines 146-159: the bullets from bullet i on
\* line 151: the width budget and the left edge passed to wrapText
WrapBudgetLessIndent == maxTextWidth - bulletIndent

WrapBudget == maxTextWidth - margin

BulletTextX == margin + bulletIndent

\* line 151: the arguments of the calls of wrapText, one call for each bullet
WrapCalls(points) ==
  [i \in 1..Len(points) |-> [maxWidth |-> WrapBudget, x |-> BulletTextX]]

RECURSIVE DrawBullets(_, _, _)
DrawBullets(points, i, currentY) ==
  IF i > Len(points) THEN [calls |-> <<>>, currentY |-> currentY]
  ELSE LET wrappedLines == wrapText(points[i], WrapBudget, BulletTextX)
           drawn == DrawLines(wrappedLines, currentY)
           rest == DrawBullets(points, i + 1, drawn.currentY + bulletGap)
       IN  [calls |-> <<FillText("marker", BulletSymbol, margin, currentY)>>
                        \o drawn.calls \o rest.calls,
            currentY |-> rest.currentY]

\* lines 108-159: everything drawn on an allocated surface
DrawingBackgroundLast(summaryText, headline, subheadline) ==
  LET bullets == DrawBullets(BulletPoints(summaryText), 1, bulletStartY)
  IN  [calls |-> <<FillText("headline", headline, width \div 2, headlineY),
                   FillText("subheadline", subheadline, width \div 2,
                            subheadlineY)>>
                   \o bullets.calls
                   \o <<FillRect("#FFFFFF", 0, 0, width, Tenths(height))>>,
       currentY |-> bullets.currentY]

Drawing(summaryText, headline, subheadline) ==
  LET bullets == DrawBullets(BulletPoints(summaryText), 1, bulletStartY)
  IN  [calls |-> <<FillRect("#FFFFFF", 0, 0, width, Tenths(height)),
                   FillText("headline", headline, width \div 2, headlineY),
                   FillText("subheadline", subheadline, width \div 2,
                            subheadlineY)>>
                   \o bullets.calls,
       currentY |-> bullets.currentY]

\* lines 90-106: the attempts to create the canvas and its context, given
\* whether the first and the second would succeed
CreateCanvasAlwaysTwice(firstOk, secondOk) == <<firstOk, secondOk>>

CreateCanvas(firstOk, secondOk) ==
  IF firstOk THEN <<TRUE>> ELSE <<FALSE, secondOk>>

NoImage == [width |-> 0, height |-> 0]

PngFailure(kind) ==
  [isSuccess |-> FALSE, kind |-> kind, hasData |-> FALSE, image |-> NoImage,
   warned |-> FALSE]

\* lines 162-174: the overflow check, canvas.toDataURL and the result
PngSuccess(currentY) ==
  [isSuccess |-> TRUE, kind |-> "Ok", hasData |-> TRUE,
   image |-> [width |-> width, height |-> height],
   warned |-> currentY > Tenths(height - margin)]

RenderUnlessOverflow(summaryText, headline, subheadline, firstOk, secondOk) ==
  LET attempts == CreateCanvas(firstOk, secondOk)
      drawing == Drawing(summaryText, headline, subheadline)
  IN  IF ~attempts[Len(attempts)]
      THEN [attempts |-> attempts, calls |-> <<>>,
            result |-> PngFailure("RenderInitFailed")]
      ELSE IF \E i \in 1..Len(drawing.calls) :
                drawing.calls[i].y > Tenths(height - margin)
      THEN [attempts |-> attempts, calls |-> drawing.calls,
            result |-> PngFailure("Unexpected")]
      ELSE [attempts |-> attempts, calls |-> drawing.calls,
            result |-> PngSuccess(drawing.currentY)]

\* lines 83-174 for the stored summary text: the canvas attempts, the calls
\* on the context and the result
Render(summaryText, headline, subheadline, firstOk, secondOk) ==
  LET attempts == CreateCanvas(firstOk, secondOk)
      drawing == Drawing(summaryText, headline, subheadline)
  IN  IF ~attempts[Len(attempts)]
      THEN [attempts |-> attempts, calls |-> <<>>,
            result |-> PngFailure("RenderInitFailed")]
      ELSE [attempts |-> attempts, calls |-> drawing.calls,
            result |-> PngSuccess(drawing.currentY)]

\* the stored summaries
Users == {"u1", "u2"}
NoUser == ""
SummaryIds == {"s1", "s2"}
NoRow == [exists |-> FALSE, userId |-> NoUser, originalText |-> <<>>,
          summaryText |-> <<>>, updatedAt |-> 0]

\* the summary texts of the layout: up to MaxLines lines joined by newlines.
\* A line is a short bullet, an indented bullet with a trailing space, a
\* dash without its space, an empty line, a bullet of thirty words that
\* fill a line each, or a bullet whose one word is wider than a line
WideWords(k) ==
  [i \in 1..(2 * k) |-> IF i % 2 = 1 THEN Run(SP, 1) ELSE Run("W", 57)]

LineShapes ==
  << <<Run("-", 1), Run(SP, 1), Run("A", 1)>>,
     <<Run(SP, 2), Run("-", 1), Run(SP, 1), Run("i", 1), Run(SP, 1),
       Run("i", 1), Run(SP, 1)>>,
     <<Run("-", 1), Run("A", 1)>>,
     <<>>,
     <<Run("-", 1)>> \o WideWords(30),
     <<Run("-", 1), Run(SP, 1), Run("W", 60)>> >>

SampleText ==
  <<Run("-", 1), Run(SP, 1), Run("A", 1), Run(NL, 1),
    Run("-", 1), Run(SP, 1), Run("B", 1), Run(NL, 1),
    Run("-", 1), Run(SP, 1), Run("C", 1)>>

TextOfShapes(q) == JoinNL([i \in 1..Len(q) |-> LineShapes[q[i]]])

PngTexts ==
  {TextOfShapes(q) :
     q \in UNION {[1..k -> 1..Len(LineShapes)] : k \in 1..MaxLines}}
    \cup {SampleText}

Titles == {<<>>, <<Run("T", 1)>>}

NoPng == [pc |-> "idle", caller |-> NoUser, summaryId |-> "",
          headline |-> <<>>, subheadline |-> <<>>, attempts |-> <<>>,
          wraps |-> <<>>, calls |-> <<>>, result |-> PngFailure("none")]

(***************************************************************************)
(* The summaries table: createSummaryAction, updateSummaryAction and       *)
(* refineSummaryAction                                                     *)
(***************************************************************************)
StoreTexts == {<<Run("-", 1), Run(SP, 1), Run("A", 1)>>,
               <<Run("-", 1), Run(SP, 1), Run("B", 1)>>}
Originals == {<<Run("a", 50)>>, <<Run("b", 50)>>}

\* Partial<InsertSummary>: the columns that a caller sets, and their values
Columns == {"userId", "originalText", "summaryText"}

Partials ==
  [has : SUBSET Columns, userId : Users, originalText : Originals,
   summaryText : StoreTexts]

OnlySummaryText(t) ==
  [has |-> {"summaryText"}, userId |-> "u1",
   originalText |-> <<Run("a", 50)>>, summaryText |-> t]

StoreFailure(kind) == [isSuccess |-> FALSE, kind |-> kind, data |-> NoRow]

\* line 74: set({ ...data, updatedAt: new Date() })
SetColumns(row, data, date) ==
  [row EXCEPT !.userId = IF "userId" \in data.has THEN data.userId ELSE @,
              !.originalText = IF "originalText" \in data.has
                               THEN data.originalText ELSE @,
              !.summaryText = IF "summaryText" \in data.has
                              THEN data.summaryText ELSE @,
              !.updatedAt = date]

\* lines 65-96: the table and the result after updateSummaryAction(id, data)
\* at the given date; the statement may throw
updateSummaryAction(table, id, data, date, throws) ==
  IF throws THEN [table |-> table, result |-> StoreFailure("DbError")]
  ELSE IF id \notin DOMAIN table \/ ~table[id].exists
  THEN [table |-> table, result |-> StoreFailure("NotFound")]
  ELSE LET updatedSummary == SetColumns(table[id], data, date)
       IN  [table |-> [table EXCEPT ![id] = updatedSummary],
            result |-> [isSuccess |-> TRUE, kind |-> "Ok",
                        data |-> updatedSummary]]

RefineOptions == {"shorter", "longer", "rewrite"}

NoRefine == [pc |-> "idle", caller |-> NoUser, summaryId |-> "",
             attempts |-> <<>>, result |-> StoreFailure("none")]

\* lines 35-57 of the summaries actions: the table and the result after
\* createSummaryAction(data) inserts under the generated id; the statement
\* may throw
createSummaryAction(table, id, data, date, throws) ==
  IF throws THEN [table |-> table, result |-> StoreFailure("DbError")]
  ELSE LET newSummary == [exists |-> TRUE, userId |-> data.userId,
                          originalText |-> data.originalText,
                          summaryText |-> data.summaryText,
                          updatedAt |-> date]
       IN  [table |-> [table EXCEPT ![id] = newSummary],
            result |-> [isSuccess |-> TRUE, kind |-> "Ok",
                        data |-> newSummary]]

\* the calls of generateSummary that an action makes, each with its outcome:
\* the try block, and one more call in its catch block (generate-summary
\* lines 60-74, refine-summary lines 147-162)
SummarizeAlwaysTwice(firstOk, secondOk) == <<firstOk, secondOk>>

Summarize(firstOk, secondOk) ==
  IF firstOk THEN <<TRUE>> ELSE <<FALSE, secondOk>>

\* the article texts a client passes to generateSummaryAction
ArticleTexts == Originals \cup {<<>>, <<Run(SP, 2)>>}

NoGen == [pc |-> "idle", caller |-> NoUser, text |-> <<>>,
          attempts |-> <<>>, result |-> StoreFailure("none")]

\* the page of a summary before it is mounted
NoPage == [mounted |-> FALSE]

(***************************************************************************)
(* State                                                                   *)
(***************************************************************************)
\* call: the invocations of fetchArticleAction, by who invoked them
\* isSubmitting: the form's isSubmitting state
\* subs: the URL submissions of the user so far
\* wrap: a call of wrapText, its arguments and the lines it returned
\* png: a call of generatePngAction, its canvas attempts, the calls on the
\* 2D context and its result; db: the summaries table
\* refine: a call of refineSummaryAction and its result; now: the clock
\* gen: a call of generateSummaryAction and its result
\* page: the state of the SummaryClient component and of its editor
\* saves: the saveSummary requests of the page that are under way
VARIABLES call, isSubmitting, subs, wrap, png, db, refine, now, gen, page,
          saves

vars == <<call, isSubmitting, subs, wrap, png, db, refine, now, gen, page,
          saves>>

storeVars == <<db, refine, now>>
pageVars == <<page, saves>>

\* what the extraction and submission steps leave alone
layoutVars == <<wrap, png, storeVars, gen, pageVars>>

Direct == <<"direct", 0>>
Owners == {Direct} \cup ({"form", "home"} \X (1..MaxSubmits))

NoUrl == [scheme |-> "", host |-> ""]
NoResponse == [kind |-> "none", status |-> 0, html |-> FALSE, doc |-> <<>>]
FreeCall == [st |-> "free", url |-> NoUrl, requested |-> FALSE,
             response |-> NoResponse, result |-> NoResult]

Init ==
  /\ call = [o \in Owners |-> FreeCall]
  /\ isSubmitting = FALSE
  /\ subs = <<>>
  /\ wrap = NoWrap
  /\ png = NoPng
  /\ db = [id \in SummaryIds |-> NoRow]
  /\ refine = NoRefine
  /\ now = 0
  /\ gen = NoGen
  /\ page = NoPage
  /\ saves = <<>>

\* lines 37-53: fetchArticleAction(u) up to its await.  The URL is
\* validated; then axios.get issues the GET, or rejects a protocol it cannot
\* request without issuing anything
StartCallNoValidation(u) ==
  IF ~Requestable(u)
  THEN [FreeCall EXCEPT !.st = "done", !.url = u,
                        !.result = CatchBlock(AxiosError(FALSE, 0, FALSE))]
  ELSE [FreeCall EXCEPT !.st = "pending", !.url = u, !.requested = TRUE]

StartCall(u) ==
  IF ~URLParses(u)
  THEN [FreeCall EXCEPT !.st = "done", !.url = u,
                        !.result = Failure("InvalidInput", 0)]
  ELSE IF ~Requestable(u)
  THEN [FreeCall EXCEPT !.st = "done", !.url = u,
                        !.result = CatchBlock(AxiosError(FALSE, 0, FALSE))]
  ELSE [FreeCall EXCEPT !.st = "pending", !.url = u, !.requested = TRUE]

\* the rest of fetchArticleAction when the GET comes back
FinishCall(c, r, loadThrows) ==
  LET res == AfterResponse(r, loadThrows)
  IN  [c EXCEPT !.st = IF res.thrown THEN "threw" ELSE "done",
                !.response = r, !.result = res]

\* a client invokes the server action with any string
Invoke(u) ==
  /\ call[Direct].st = "free"
  /\ call' = [call EXCEPT ![Direct] = StartCall(u)]
  /\ UNCHANGED <<isSubmitting, subs, layoutVars>>

\* the GET of call o comes back: with one of the answers rs, or with
\* status 200 and an HTML document of up to n elements
Respond(o, rs, n) ==
  /\ call[o].st = "pending"
  /\ \/ \E r \in rs, loadThrows \in BOOLEAN :
          call' = [call EXCEPT ![o] = FinishCall(call[o], r, loadThrows)]
     \/ \E k \in 1..n : \E q \in DocChoices(k) :
          call' = [call EXCEPT ![o] =
                     FinishCall(call[o], HtmlResponse(DocOfChoice(q, k)), FALSE)]
  /\ UNCHANGED <<isSubmitting, subs, layoutVars>>

\* the client has the result
Return ==
  /\ call[Direct].st \in {"done", "threw"}
  /\ call' = [call EXCEPT ![Direct] = FreeCall]
  /\ UNCHANGED <<isSubmitting, subs, layoutVars>>

NextExtract ==
  \/ \E u \in Urls : Invoke(u)
  \/ Respond(Direct, Responses, MaxNodes)
  \/ Return

SpecExtract == Init /\ [][NextExtract]_vars

(***************************************************************************)
(* The URL form (UrlInput) and the homepage handler (HomePage)             *)
(***************************************************************************)
\* urlSchema: z.string().min(1).url(); zod's url check is the URL parser
UrlSchemaAccepts(u) == u /= NoUrl /\ URLParses(u)

Form(s) == <<"form", s>>
Home(s) == <<"home", s>>

Requests(c) == IF c.requested THEN 1 ELSE 0

\* the answers of the article's server on the submission path
UiResponses ==
  { HtmlResponse(d) :
      d \in {<<>>, <<[tag |-> "p", parent |-> 0, text |-> <<Run("a", 50)>>]>>} }
    \cup
  { [kind |-> "response", status |-> 404, html |-> FALSE, doc |-> <<>>],
    [kind |-> "noResponse", status |-> 0, html |-> FALSE, doc |-> <<>>] }

\* lines 245 and 253: the URL field and the submit button are disabled
\* while isSubmitting is set
SubmitAlwaysEnabled(submitting) == TRUE

SubmitEnabled(submitting) == ~submitting

\* the user submits the form with u in the field: form.handleSubmit
\* validates, then onSubmit sets isSubmitting and calls fetchArticleAction
Submit(u) ==
  /\ SubmitEnabled(isSubmitting)
  /\ Len(subs) < MaxSubmits
  /\ LET s == Len(subs) + 1
         c == StartCall(u)
     IN  IF ~UrlSchemaAccepts(u)
         THEN /\ subs' = Append(subs, [url |-> u, stage |-> "rejected",
                                       invocations |-> 0, gets |-> 0])
              /\ UNCHANGED <<call, isSubmitting>>
         ELSE /\ subs' = Append(subs, [url |-> u, stage |-> "fetching",
                                       invocations |-> 1, gets |-> Requests(c)])
              /\ call' = [call EXCEPT ![Form(s)] = c]
              /\ isSubmitting' = TRUE
  /\ UNCHANGED layoutVars

\* onSubmit after its await: the toast, onSubmitSuccess on success (the
\* homepage handler, which calls fetchArticleAction with the URL of the
\* article data), and finally isSubmitting is cleared
FormReceive(s) ==
  /\ s \in 1..Len(subs)
  /\ subs[s].stage = "fetching"
  /\ call[Form(s)].st \in {"done", "threw"}
  /\ LET res == call[Form(s)].result
         c == StartCall(call[Form(s)].url)
     IN  IF call[Form(s)].st = "done" /\ res.isSuccess /\ res.hasData
         THEN /\ subs' = [subs EXCEPT ![s].stage = "homeFetching",
                                      ![s].invocations = @ + 1,
                                      ![s].gets = @ + Requests(c)]
              /\ call' = [call EXCEPT ![Form(s)] = FreeCall, ![Home(s)] = c]
         ELSE /\ subs' = [subs EXCEPT ![s].stage = "toastError"]
              /\ call' = [call EXCEPT ![Form(s)] = FreeCall]
  /\ isSubmitting' = FALSE
  /\ UNCHANGED layoutVars

\* the homepage handler after its first await: it returns on a failed
\* fetch, else generateSummaryAction stores a summary (summaryOk) and the
\* handler redirects to it
HomeFetched(s, summaryOk) ==
  /\ s \in 1..Len(subs)
  /\ subs[s].stage = "homeFetching"
  /\ call[Home(s)].st \in {"done", "threw"}
  /\ LET res == call[Home(s)].result
     IN  subs' = [subs EXCEPT ![s].stage =
                    IF ~(res.isSuccess /\ res.hasData) THEN "homeFailed"
                    ELSE IF ~summaryOk THEN "summaryFailed"
                    ELSE "redirected"]
  /\ call' = [call EXCEPT ![Home(s)] = FreeCall]
  /\ UNCHANGED <<isSubmitting, layoutVars>>

Next ==
  \/ \E u \in Urls : Submit(u)
  \/ \E o \in Owners \ {Direct} : Respond(o, UiResponses, 0)
  \/ \E s \in 1..MaxSubmits : FormReceive(s)
  \/ \E s \in 1..MaxSubmits, ok \in BOOLEAN : HomeFetched(s, ok)

Spec == Init /\ [][Next]_vars

(***************************************************************************)
(* Calls of wrapText                                                       *)
(***************************************************************************)
\* what the calls of wrapText leave alone
extractVars == <<call, isSubmitting, subs>>
nonWrapVars == <<extractVars, png, storeVars, gen, pageVars>>

\* a caller has a bullet string, a width budget and a left edge
WrapArguments(t, w, x) ==
  /\ wrap.pc = "idle"
  /\ wrap' = [pc |-> "called", text |-> t, maxWidth |-> w, x |-> x,
              lines |-> <<>>]
  /\ UNCHANGED nonWrapVars

\* lines 40-68: wrapText runs to its return
WrapReturn ==
  /\ wrap.pc = "called"
  /\ wrap' = [wrap EXCEPT !.pc = "returned",
                          !.lines = wrapText(wrap.text, wrap.maxWidth, wrap.x)]
  /\ UNCHANGED nonWrapVars

NextWrap ==
  \/ \E t \in WrapTexts, w \in WrapWidths, x \in {0, 90} : WrapArguments(t, w, x)
  \/ WrapReturn

SpecWrap == Init /\ [][NextWrap]_vars

(***************************************************************************)
(* Calls of generatePngAction                                              *)
(***************************************************************************)
nonPngVars == <<extractVars, wrap, storeVars, gen, pageVars>>

\* a summary of user u1 is stored under s1
InitPng ==
  /\ call = [o \in Owners |-> FreeCall]
  /\ isSubmitting = FALSE
  /\ subs = <<>>
  /\ wrap = NoWrap
  /\ png = NoPng
  /\ refine = NoRefine
  /\ now = 0
  /\ gen = NoGen
  /\ page = NoPage
  /\ saves = <<>>
  /\ \E t \in PngTexts :
       db = [id \in SummaryIds |->
               IF id = "s1"
               THEN [exists |-> TRUE, userId |-> "u1",
                     originalText |-> <<Run("a", 50)>>, summaryText |-> t,
                     updatedAt |-> 0]
               ELSE NoRow]

\* lines 43-63: generatePngAction up to its query: auth() and the check of
\* the arguments
PngCall(caller, summaryId, headline, subheadline) ==
  [NoPng EXCEPT
     !.caller = caller, !.summaryId = summaryId,
     !.headline = headline, !.subheadline = subheadline,
     !.pc = IF caller = NoUser \/ summaryId = "" \/ headline = <<>>
               \/ subheadline = <<>>
            THEN "done" ELSE "querying",
     !.result = IF caller = NoUser THEN PngFailure("Unauthenticated")
                ELSE IF summaryId = "" \/ headline = <<>>
                        \/ subheadline = <<>>
                THEN PngFailure("InvalidInput")
                ELSE PngFailure("none")]

\* a client invokes the server action
PngInvoke(caller, summaryId, headline, subheadline) ==
  /\ png.pc = "idle"
  /\ png' = PngCall(caller, summaryId, headline, subheadline)
  /\ UNCHANGED nonPngVars

\* lines 76-81: the summary is the caller's own
OwnsAnySummary(summary, userId) == TRUE

OwnsSummary(summary, userId) == summary.userId = userId

\* lines 65-181: the query comes back or throws; the ownership check, the
\* canvas, the drawing and the result
PngQueried(queryThrows, firstOk, secondOk) ==
  /\ png.pc = "querying"
  /\ LET summary == db[png.summaryId]
         r == Render(summary.summaryText, png.headline, png.subheadline,
                     firstOk, secondOk)
     IN  png' =
           IF queryThrows
           THEN [png EXCEPT !.pc = "done", !.result = PngFailure("Unexpected")]
           ELSE IF ~summary.exists
           THEN [png EXCEPT !.pc = "done", !.result = PngFailure("NotFound")]
           ELSE IF ~OwnsSummary(summary, png.caller)
           THEN [png EXCEPT !.pc = "done",
                            !.result = PngFailure("Unauthorized")]
           ELSE [png EXCEPT !.pc = "done", !.attempts = r.attempts,
                            !.wraps = IF r.result.isSuccess
                                      THEN WrapCalls(BulletPoints(
                                             summary.summaryText))
                                      ELSE <<>>,
                            !.calls = r.calls, !.result = r.result]
  /\ UNCHANGED nonPngVars

NextPng ==
  \/ \E caller \in Users \cup {NoUser}, id \in SummaryIds \cup {""},
        h \in Titles, sh \in Titles : PngInvoke(caller, id, h, sh)
  \/ \E queryThrows, firstOk, secondOk \in BOOLEAN :
       PngQueried(queryThrows, firstOk, secondOk)

SpecPng == InitPng /\ [][NextPng]_vars

(***************************************************************************)
(* The stored summaries and the calls that write them                      *)
(***************************************************************************)
nonStoreVars == <<extractVars, wrap, png, pageVars>>

\* a summary of user u1 is stored under s1
InitStore ==
  /\ call = [o \in Owners |-> FreeCall]
  /\ isSubmitting = FALSE
  /\ subs = <<>>
  /\ wrap = NoWrap
  /\ png = NoPng
  /\ refine = NoRefine
  /\ now = 0
  /\ gen = NoGen
  /\ page = NoPage
  /\ saves = <<>>
  /\ db = [id \in SummaryIds |->
             IF id = "s1"
             THEN [exists |-> TRUE, userId |-> "u1",
                   originalText |-> <<Run("a", 50)>>,
                   summaryText |-> <<Run("-", 1), Run(SP, 1), Run("A", 1)>>,
                   updatedAt |-> 0]
             ELSE NoRow]

\* lines 35-57 of the summaries actions: createSummaryAction inserts a row
\* under a fresh id
CreateSummary(id, userId, originalText, summaryText) ==
  /\ ~db[id].exists
  /\ now < MaxUpdates
  /\ now' = now + 1
  /\ db' = [db EXCEPT ![id] =
               [exists |-> TRUE, userId |-> userId,
                originalText |-> originalText, summaryText |-> summaryText,
                updatedAt |-> now + 1]]
  /\ UNCHANGED <<nonStoreVars, refine, gen>>

\* a client calls the server action updateSummaryAction(id, data)
UpdateSummary(id, data, throws) ==
  /\ now < MaxUpdates
  /\ now' = now + 1
  /\ db' = updateSummaryAction(db, id, data, now + 1, throws).table
  /\ UNCHANGED <<nonStoreVars, refine, gen>>

\* summary-client.tsx lines 78-93: saveSummary on the page of summary id
\* with the text of the editor
SaveSummary(id, summaryText, throws) ==
  /\ db[id].exists
  /\ now < MaxUpdates
  /\ now' = now + 1
  /\ db' = updateSummaryAction(db, id, OnlySummaryText(summaryText), now + 1,
                               throws).table
  /\ UNCHANGED <<nonStoreVars, refine, gen>>

\* refineSummaryAction lines 89-116: auth() and the checks of the arguments
RefineCall(caller, summaryId, originalText, currentSummary, option) ==
  IF caller = NoUser
  THEN [pc |-> "done", caller |-> caller, summaryId |-> summaryId,
        attempts |-> <<>>, result |-> StoreFailure("Unauthenticated")]
  ELSE IF summaryId = "" \/ currentSummary = <<>> \/ originalText = <<>>
          \/ option \notin RefineOptions
  THEN [pc |-> "done", caller |-> caller, summaryId |-> summaryId,
        attempts |-> <<>>, result |-> StoreFailure("InvalidInput")]
  ELSE [pc |-> "summarizing", caller |-> caller, summaryId |-> summaryId,
        attempts |-> <<>>, result |-> StoreFailure("none")]

\* a client invokes the server action
RefineInvoke(caller, summaryId, originalText, currentSummary, option) ==
  /\ refine.pc = "idle"
  /\ refine' = RefineCall(caller, summaryId, originalText, currentSummary,
                          option)
  /\ UNCHANGED <<nonStoreVars, db, now, gen>>

\* lines 147-186: generateSummary, once more after a failure; then the
\* update of the row, and only then the comparison of the row's owner with
\* the caller
RefineSummarized(firstOk, secondOk, refinedSummary, throws) ==
  /\ refine.pc = "summarizing"
  /\ IF ~Summarize(firstOk, secondOk)[Len(Summarize(firstOk, secondOk))]
     THEN /\ refine' = [refine EXCEPT !.pc = "done",
                                      !.attempts = Summarize(firstOk, secondOk),
                                      !.result = StoreFailure("SummarizerFailed")]
          /\ UNCHANGED <<db, now>>
     ELSE /\ now < MaxUpdates
          /\ now' = now + 1
          /\ LET dbResult == updateSummaryAction(db, refine.summaryId,
                                OnlySummaryText(refinedSummary), now + 1, throws)
             IN  /\ db' = dbResult.table
                 /\ refine' =
                      [refine EXCEPT
                         !.pc = "done",
                         !.attempts = Summarize(firstOk, secondOk),
                         !.result =
                           IF ~dbResult.result.isSuccess
                           THEN StoreFailure("UpdateFailed")
                           ELSE IF dbResult.result.data.userId /= refine.caller
                           THEN StoreFailure("Unauthorized")
                           ELSE dbResult.result]
  /\ UNCHANGED <<nonStoreVars, gen>>

\* the client has the result
RefineReturn ==
  /\ refine.pc = "done"
  /\ refine' = NoRefine
  /\ UNCHANGED <<nonStoreVars, db, now, gen>>

\* generateSummaryAction lines 38-56: auth() and the check of the article
GenerateInvoke(caller, text) ==
  /\ gen.pc = "idle"
  /\ gen' = [NoGen EXCEPT
               !.caller = caller, !.text = text,
               !.pc = IF caller = NoUser \/ Len(Trim(text)) = 0
                      THEN "done" ELSE "summarizing",
               !.result = IF caller = NoUser
                          THEN StoreFailure("Unauthenticated")
                          ELSE IF Len(Trim(text)) = 0
                          THEN StoreFailure("InvalidInput")
                          ELSE StoreFailure("none")]
  /\ UNCHANGED <<nonStoreVars, storeVars>>

\* lines 58-100: generateSummary, once more after a failure; then
\* createSummaryAction stores the summary under a generated id
GenerateSummarized(firstOk, secondOk, summaryText, id, throws) ==
  /\ gen.pc = "summarizing"
  /\ IF ~Summarize(firstOk, secondOk)[Len(Summarize(firstOk, secondOk))]
     THEN /\ gen' = [gen EXCEPT !.pc = "done",
                                !.attempts = Summarize(firstOk, secondOk),
                                !.result = StoreFailure("SummarizerFailed")]
          /\ UNCHANGED <<db, now>>
     ELSE /\ ~db[id].exists
          /\ now < MaxUpdates
          /\ now' = now + 1
          /\ LET summaryData == [userId |-> gen.caller,
                                 originalText |-> gen.text,
                                 summaryText |-> summaryText]
                 dbResult == createSummaryAction(db, id, summaryData, now + 1,
                                                 throws)
             IN  /\ db' = dbResult.table
                 /\ gen' = [gen EXCEPT
                              !.pc = "done",
                              !.attempts = Summarize(firstOk, secondOk),
                              !.result = IF ~dbResult.result.isSuccess
                                         THEN StoreFailure("InsertFailed")
                                         ELSE dbResult.result]
  /\ UNCHANGED <<nonStoreVars, refine>>

\* the client has the result
GenerateReturn ==
  /\ gen.pc = "done"
  /\ gen' = NoGen
  /\ UNCHANGED <<nonStoreVars, storeVars>>

NextStore ==
  \/ \E id \in SummaryIds, u \in Users, o \in Originals, t \in StoreTexts :
       CreateSummary(id, u, o, t)
  \/ \E id \in SummaryIds, data \in Partials, throws \in BOOLEAN :
       UpdateSummary(id, data, throws)
  \/ \E id \in SummaryIds, t \in StoreTexts, throws \in BOOLEAN :
       SaveSummary(id, t, throws)
  \/ \E caller \in Users \cup {NoUser}, id \in SummaryIds \cup {""},
        o \in Originals \cup {<<>>}, t \in StoreTexts \cup {<<>>},
        option \in RefineOptions \cup {"other"} :
       RefineInvoke(caller, id, o, t, option)
  \/ \E firstOk, secondOk, throws \in BOOLEAN, t \in StoreTexts :
       RefineSummarized(firstOk, secondOk, t, throws)
  \/ RefineReturn

SpecStore == InitStore /\ [][NextStore]_vars

\* the two actions that call the summarizer, called by any client
NextSummarize ==
  \/ \E caller \in Users \cup {NoUser}, text \in ArticleTexts :
       GenerateInvoke(caller, text)
  \/ \E firstOk, secondOk, throws \in BOOLEAN, t \in StoreTexts,
        id \in SummaryIds :
       GenerateSummarized(firstOk, secondOk, t, id, throws)
  \/ GenerateReturn
  \/ \E caller \in Users \cup {NoUser}, id \in SummaryIds \cup {""},
        o \in Originals \cup {<<>>}, t \in StoreTexts \cup {<<>>},
        option \in RefineOptions \cup {"other"} :
       RefineInvoke(caller, id, o, t, option)
  \/ \E firstOk, secondOk, throws \in BOOLEAN, t \in StoreTexts :
       RefineSummarized(firstOk, secondOk, t, throws)
  \/ RefineReturn

SpecSummarize == InitStore /\ [][NextSummarize]_vars

(***************************************************************************)
(* The summary page: SummaryClient and its SummaryEditor                   *)
(***************************************************************************)
nonPageVars == <<extractVars, wrap, gen>>

\* the page is rendered for the owner u1 of the summary s1
PageUser == "u1"
PageSummaryId == "s1"

\* lines 71-72: the headline and the subheadline of the image, abbreviated
\* to their first letters
headline == <<Run("A", 1)>>
subheadline == <<Run("G", 1)>>

\* the editor hands its content to onChange as HTML
Paragraph(t) ==
  Concat(Concat(<<Run("<", 1), Run("p", 1), Run(">", 1)>>, t),
         <<Run("<", 1), Run("/", 1), Run("p", 1), Run(">", 1)>>)

EditContents == {Paragraph(<<Run("-", 1), Run(SP, 1), Run("C", 1)>>)}

\* the answers of the summarizer to the prompts of the page
RefinedTexts == {<<Run("-", 1), Run(SP, 1), Run("B", 1)>>}

\* summary-client.tsx lines 61-69 and layout.tsx line 92: the state of the
\* component when it is mounted with the summary that the server read; the
\* editor takes its initial value from the prop.  unsaved and pngFor are
\* history: whether the user edited since the last save or refinement that
\* completed, and the text the client held when it asked for the image
SummaryClient(summary) ==
  [mounted |-> TRUE,
   summary |-> [id |-> PageSummaryId, originalText |-> summary.originalText,
                summaryText |-> summary.summaryText],
   summaryText |-> summary.summaryText,
   value |-> summary.summaryText,
   pngData |-> FALSE, isRefining |-> FALSE, isGeneratingPng |-> FALSE,
   toast |-> "none", unsaved |-> FALSE, pngFor |-> <<>>]

InitPage ==
  /\ call = [o \in Owners |-> FreeCall]
  /\ isSubmitting = FALSE
  /\ subs = <<>>
  /\ wrap = NoWrap
  /\ png = NoPng
  /\ refine = NoRefine
  /\ now = 0
  /\ gen = NoGen
  /\ saves = <<>>
  /\ db = [id \in SummaryIds |->
             IF id = PageSummaryId
             THEN [exists |-> TRUE, userId |-> PageUser,
                   originalText |-> <<Run("a", 50)>>,
                   summaryText |-> <<Run("-", 1), Run(SP, 1), Run("A", 1)>>,
                   updatedAt |-> 0]
             ELSE NoRow]
  /\ page = SummaryClient(db[PageSummaryId])

\* layout.tsx lines 109-112: handleChange sets the editor's value and calls
\* onChange, which is setSummaryText (summary-client.tsx line 175)
PageEdit(content) ==
  /\ content /= page.value
  /\ page' = [page EXCEPT !.value = content, !.summaryText = content,
                          !.unsaved = TRUE]
  /\ UNCHANGED <<nonPageVars, png, storeVars, saves>>

\* summary-client.tsx lines 78-79: Save is clicked; saveSummary calls
\* updateSummaryAction with the summaryText of this render.  The button is
\* never disabled
PageSaveClick ==
  /\ Len(saves) < MaxSaves
  /\ saves' = Append(saves, [pc |-> "sent", summaryText |-> page.summaryText,
                             isSuccess |-> FALSE])
  /\ UNCHANGED <<nonPageVars, png, storeVars, page>>

\* the server runs updateSummaryAction for the i-th request
PageSaveServed(i, throws) ==
  /\ i \in 1..Len(saves)
  /\ saves[i].pc = "sent"
  /\ now < MaxUpdates
  /\ now' = now + 1
  /\ LET dbResult == updateSummaryAction(db, page.summary.id,
                        OnlySummaryText(saves[i].summaryText), now + 1, throws)
     IN  /\ db' = dbResult.table
         /\ saves' = [saves EXCEPT ![i].pc = "done",
                                   ![i].isSuccess = dbResult.result.isSuccess]
  /\ UNCHANGED <<nonPageVars, png, refine, page>>

\* lines 80-92: saveSummary after its await shows a toast; when the call
\* itself is rejected nothing catches it
PageSaveReceive(i, threw) ==
  /\ i \in 1..Len(saves)
  /\ saves[i].pc = "done"
  /\ saves' = [j \in 1..(Len(saves) - 1) |->
                 IF j < i THEN saves[j] ELSE saves[j + 1]]
  /\ page' = [page EXCEPT
                !.toast = IF threw THEN @
                          ELSE IF saves[i].isSuccess THEN "success"
                          ELSE "failure",
                !.unsaved = IF saves[i].isSuccess
                               /\ saves[i].summaryText = page.summaryText
                            THEN FALSE ELSE @]
  /\ UNCHANGED <<nonPageVars, png, storeVars>>

\* lines 99-107: a refinement button is clicked; the buttons are disabled
\* while isRefining is set (lines 185-205)
PageRefineClick(option) ==
  /\ ~page.isRefining
  /\ refine.pc = "idle"
  /\ page' = [page EXCEPT !.isRefining = TRUE]
  /\ refine' = RefineCall(PageUser, page.summary.id,
                          page.summary.originalText, page.summaryText, option)
  /\ UNCHANGED <<nonPageVars, png, db, now, saves>>

\* lines 108-131: handleRefine after its await, with the result of the
\* action or with the call rejected
AfterRefineWithoutFinally(p, result, threw) ==
  IF threw THEN [p EXCEPT !.toast = "threw"]
  ELSE IF result.isSuccess
  THEN [p EXCEPT !.summaryText = result.data.summaryText,
                 !.toast = "success", !.unsaved = FALSE,
                 !.isRefining = FALSE]
  ELSE [p EXCEPT !.toast = "failure", !.isRefining = FALSE]

AfterRefine(p, result, threw) ==
  IF threw THEN [p EXCEPT !.toast = "threw", !.isRefining = FALSE]
  ELSE IF result.isSuccess
  THEN [p EXCEPT !.summaryText = result.data.summaryText,
                 !.toast = "success", !.unsaved = FALSE,
                 !.isRefining = FALSE]
  ELSE [p EXCEPT !.toast = "failure", !.isRefining = FALSE]

PageRefineReceive(threw) ==
  /\ page.isRefining
  /\ refine.pc = "done"
  /\ page' = AfterRefine(page, refine.result, threw)
  /\ refine' = NoRefine
  /\ UNCHANGED <<nonPageVars, png, db, now, saves>>

\* lines 137-141: Generate PNG is clicked; the button is disabled while
\* isGeneratingPng is set (line 212).  The action gets the id of the
\* summary, the headline and the subheadline
PagePngClick ==
  /\ ~page.isGeneratingPng
  /\ png.pc = "idle"
  /\ page' = [page EXCEPT !.isGeneratingPng = TRUE,
                          !.pngFor = page.summaryText]
  /\ png' = PngCall(PageUser, page.summary.id, headline, subheadline)
  /\ UNCHANGED <<nonPageVars, storeVars, saves>>

\* lines 142-164: handleGeneratePng after its await
AfterPng(p, result, threw) ==
  IF threw
  THEN [p EXCEPT !.toast = "threw", !.isGeneratingPng = FALSE,
                 !.pngFor = <<>>]
  ELSE IF result.isSuccess /\ result.hasData
  THEN [p EXCEPT !.pngData = TRUE, !.toast = "success",
                 !.isGeneratingPng = FALSE, !.pngFor = <<>>]
  ELSE [p EXCEPT !.toast = "failure", !.isGeneratingPng = FALSE,
                 !.pngFor = <<>>]

PagePngReceive(threw) ==
  /\ page.isGeneratingPng
  /\ png.pc = "done"
  /\ page' = AfterPng(page, png.result, threw)
  /\ png' = NoPng
  /\ UNCHANGED <<nonPageVars, storeVars, saves>>

NextPage ==
  \/ \E content \in EditContents : PageEdit(content)
  \/ PageSaveClick
  \/ \E i \in 1..MaxSaves, throws \in BOOLEAN : PageSaveServed(i, throws)
  \/ \E i \in 1..MaxSaves, threw \in BOOLEAN : PageSaveReceive(i, threw)
  \/ \E option \in RefineOptions : PageRefineClick(option)
  \/ \E ok \in BOOLEAN, t \in RefinedTexts :
       RefineSummarized(ok, ok, t, FALSE)
  \/ \E threw \in BOOLEAN : PageRefineReceive(threw)
  \/ PagePngClick
  \/ \E queryThrows \in BOOLEAN : PngQueried(queryThrows, TRUE, TRUE)
  \/ \E threw \in BOOLEAN : PagePngReceive(threw)

SpecPage == InitPage /\ [][NextPage]_vars

\* the page without its Save button: the edits and the two requests that
\* have a flag
NextPageRequests ==
  \/ \E content \in EditContents : PageEdit(content)
  \/ \E option \in RefineOptions : PageRefineClick(option)
  \/ \E firstOk, secondOk, throws \in BOOLEAN, t \in RefinedTexts :
       RefineSummarized(firstOk, secondOk, t, throws)
  \/ \E threw \in BOOLEAN : PageRefineReceive(threw)
  \/ PagePngClick
  \/ \E queryThrows, firstOk, secondOk \in BOOLEAN :
       PngQueried(queryThrows, firstOk, secondOk)
  \/ \E threw \in BOOLEAN : PagePngReceive(threw)

\* the continuation of an await runs once the awaited call has ended
SpecPageFair ==
  /\ InitPage /\ [][NextPageRequests]_vars
  /\ WF_vars(\E threw \in BOOLEAN : PageRefineReceive(threw))
  /\ WF_vars(\E threw \in BOOLEAN : PagePngReceive(threw))

(***************************************************************************)
(* Properties of fetchArticleAction, stated on plain character sequences   *)
(* and on the fetched document itself                                      *)
(***************************************************************************)
Finished == {o \in Owners : call[o].st \in {"done", "threw"}}

\* the calls whose GET came back with an HTML document and status 200
Extracted ==
  {o \in Finished : /\ call[o].response.kind = "response"
                    /\ call[o].response.status = 200
                    /\ call[o].response.html}

DocOf(o) == call[o].response.doc

\* j is, or lies inside, an element with one of the tags
Inside(d, j, tags) ==
  \E k \in {j} \cup (Ancestors(d, j) \ {0}) : d[k].tag \in tags

\* the elements that remain after the removal of the non-content elements
Kept(d) ==
  {j \in 1..Len(d) :
     ~Inside(d, j, {"script", "style", "iframe", "noscript", "nav", "footer", "header"})}

\* the content root: the kept articles, else the kept mains, else the body
RootOf(d) ==
  LET articles == {j \in Kept(d) : d[j].tag = "article"}
      mains == {j \in Kept(d) : d[j].tag = "main"}
  IN  IF articles /= {} THEN articles ELSE IF mains /= {} THEN mains ELSE {0}

\* the kept heading and paragraph elements strictly inside a root element
TextElementsIn(d, roots) ==
  {j \in Kept(d) : /\ d[j].tag \in {"p", "h1", "h2", "h3", "h4", "h5", "h6"}
                   /\ \E r \in roots : r \in Ancestors(d, j)}

\* the characters of the kept text of element j's subtree, in document order
RECURSIVE CharsFrom(_, _, _)
CharsFrom(d, j, k) ==
  IF k > Len(d) THEN <<>>
  ELSE (IF k \in Kept(d) /\ (k = j \/ j \in Ancestors(d, k))
        THEN Expand(d[k].text) ELSE <<>>) \o CharsFrom(d, j, k + 1)

CharsOf(d, j) == CharsFrom(d, j, j)

TrimChars(cs) ==
  LET solid == {x \in 1..Len(cs) : cs[x] \notin {" ", "\n"}}
  IN  IF solid = {} THEN <<>>
      ELSE SubSeq(cs, CHOOSE x \in solid : \A y \in solid : x <= y,
                      CHOOSE x \in solid : \A y \in solid : x >= y)

\* the trimmed, non-empty texts of the elements js taken from index j on
RECURSIVE LinesFrom(_, _, _)
LinesFrom(d, js, j) ==
  IF j > Len(d) THEN <<>>
  ELSE LET line == IF j \in js THEN TrimChars(CharsOf(d, j)) ELSE <<>>
       IN  (IF line /= <<>> THEN <<line>> ELSE <<>>) \o LinesFrom(d, js, j + 1)

RECURSIVE JoinLines(_)
JoinLines(ls) ==
  IF ls = <<>> THEN <<>>
  ELSE IF Len(ls) = 1 THEN ls[1]
  ELSE ls[1] \o <<"\n">> \o JoinLines(Tail(ls))

RECURSIVE SumLen(_)
SumLen(ls) == IF ls = <<>> THEN 0 ELSE Len(ls[1]) + SumLen(Tail(ls))

C2_OutcomeByResponse ==
  \A o \in Finished :
    LET r == call[o].response
        res == call[o].result
    IN  /\ r.kind = "noResponse" => res.kind = "NetworkError"
        /\ (r.kind = "response" /\ ~(r.status >= 200 /\ r.status <= 299)) =>
             /\ r.status \in {401, 403} => res.kind = "AccessDenied"
             /\ r.status = 404 => res.kind = "NotFound"
             /\ r.status \notin {401, 403, 404} =>
                  res.kind = "FetchFailed" /\ res.status = r.status
        /\ r.kind \in {"noResponse", "response"} => call[o].requested

C2_Witness ==
  \E o \in Finished :
    /\ call[o].response.kind = "response"
    /\ call[o].response.status = 403
    /\ call[o].result.kind = "AccessDenied"

\* C3: every call ends with a structured result, a success with data or a
\* failure with a message, and never with an exception
ResultKinds ==
  {"InvalidInput", "FetchFailed", "InsufficientContent", "AccessDenied",
   "NotFound", "NetworkError", "Unexpected"}

C3_NoExceptionEscapes ==
  \A o \in Owners :
    /\ call[o].st /= "threw"
    /\ call[o].st = "done" =>
         /\ ~call[o].result.thrown
         /\ \/ /\ call[o].result.isSuccess
               /\ call[o].result.hasData
               /\ call[o].result.kind = "Success"
            \/ /\ ~call[o].result.isSuccess
               /\ call[o].result.kind \in ResultKinds

\* the body of a 200 response was not HTML text, loading it threw, and the
\* call still returned a failure
C3_Witness ==
  \E o \in Owners :
    /\ call[o].st = "done"
    /\ call[o].response.kind = "response"
    /\ call[o].response.status = 200
    /\ ~call[o].response.html
    /\ call[o].result.kind = "Unexpected"

\* C4: the text of every success is at least 50 characters long
\* (violated: the length is checked before the newline runs are collapsed)
C4_SuccessTextAtLeast50 ==
  \A o \in Finished :
    call[o].result.isSuccess => Len(Expand(call[o].result.text)) >= 50

\* C5 as stated: a 200 document whose kept heading and paragraph elements
\* have trimmed texts that total at least 50 characters gives success
\* (violated: only the text inside the content root is collected)
C5_SufficientDocumentSucceeds ==
  \A o \in Extracted :
    SumLen(LinesFrom(DocOf(o), TextElementsIn(DocOf(o), {0}), 1)) >= 50
      => call[o].result.isSuccess

\* C5 amended: a 200 document whose kept heading and paragraph elements
\* inside the content root have trimmed texts that total at least 50
\* characters gives success
C5_SufficientRootSucceeds ==
  \A o \in Extracted :
    SumLen(LinesFrom(DocOf(o), TextElementsIn(DocOf(o), RootOf(DocOf(o))), 1)) >= 50
      => call[o].st = "done" /\ call[o].result.isSuccess

\* one paragraph of exactly 50 characters
C5_Witness ==
  \E o \in Extracted :
    /\ SumLen(LinesFrom(DocOf(o), TextElementsIn(DocOf(o), RootOf(DocOf(o))), 1)) = 50
    /\ call[o].result.isSuccess

\* C6: the root used for text collection is the article elements of the
\* reduced document if there are any, else its main elements if there are
\* any, else the body; a document without article and main whose body-wide
\* text is sufficient gives success
C6_RootSelection ==
  \A o \in Extracted :
    LET d == DocOf(o)
        tr == call[o].result.trace
        articles == {j \in Kept(d) : d[j].tag = "article"}
        mains == {j \in Kept(d) : d[j].tag = "main"}
    IN  /\ tr.loaded
        /\ articles /= {} => tr.root = articles
        /\ (articles = {} /\ mains /= {}) => tr.root = mains
        /\ (articles = {} /\ mains = {}) =>
             /\ tr.root = {0}
             /\ Len(JoinLines(LinesFrom(d, TextElementsIn(d, {0}), 1))) >= 50
                  => call[o].result.isSuccess

\* a document with a main and an article: the article is the root
C6_Witness ==
  \E o \in Extracted :
    /\ \E j \in Kept(DocOf(o)) : DocOf(o)[j].tag = "main"
    /\ \E j \in Kept(DocOf(o)) : DocOf(o)[j].tag = "article"
    /\ call[o].result.trace.root = {j \in Kept(DocOf(o)) : DocOf(o)[j].tag = "article"}

\* the body-wide fallback succeeding
C6_WitnessBody ==
  \E o \in Extracted :
    /\ Len(DocOf(o)) > 0
    /\ call[o].result.trace.root = {0}
    /\ call[o].result.isSuccess

\* C7: the extracted text is the newline-joined sequence of the trimmed,
\* non-empty texts of the heading and paragraph elements inside the root,
\* in document order
C7_DocumentOrder ==
  \A o \in Extracted :
    Expand(call[o].result.trace.articleText)
      = JoinLines(LinesFrom(DocOf(o), TextElementsIn(DocOf(o), RootOf(DocOf(o))), 1))

\* two elements with text were collected
C7_Witness ==
  \E o \in Extracted :
    LET cs == Expand(call[o].result.trace.articleText)
    IN  /\ \E x \in 1..Len(cs) : cs[x] = "a"
        /\ \E x \in 1..Len(cs) : cs[x] = "b"
        /\ Len(call[o].result.trace.elements) = 2

\* C8: no character of a text inside a script, style, iframe, nav, header
\* or footer element is in the extracted text, before or after
\* normalization, wherever that element lies
C8_NoBoilerplateText ==
  \A o \in Extracted :
    LET d == DocOf(o)
        returned == Expand(call[o].result.text)
        collected == Expand(call[o].result.trace.articleText)
        chars == {returned[x] : x \in DOMAIN returned}
                   \cup {collected[x] : x \in DOMAIN collected}
    IN  \A j \in 1..Len(d) :
          Inside(d, j, {"script", "style", "iframe", "nav", "header", "footer"})
            => Letters[j] \notin chars

\* a script with text inside a collected paragraph of the root
C8_Witness ==
  \E o \in Extracted :
    \E j \in 1..Len(DocOf(o)) :
      /\ DocOf(o)[j].tag \in {"script", "style", "iframe", "nav", "header", "footer"}
      /\ DocOf(o)[j].text /= <<>>
      /\ DocOf(o)[j].parent \in TextElementsIn(DocOf(o), RootOf(DocOf(o)))
      /\ call[o].result.isSuccess

\* C9: the text of a success has no two consecutive newlines and neither
\* starts nor ends with whitespace
C9_Normalized ==
  \A o \in Finished :
    call[o].result.isSuccess =>
      LET cs == Expand(call[o].result.text)
      IN  /\ \A x \in 1..Len(cs) - 1 : ~(cs[x] = "\n" /\ cs[x + 1] = "\n")
          /\ cs /= <<>> => cs[1] \notin {" ", "\n"} /\ cs[Len(cs)] \notin {" ", "\n"}

\* the collected text had runs of newlines, which the success has not
C9_Witness ==
  \E o \in Finished :
    /\ call[o].result.isSuccess
    /\ LET cs == Expand(call[o].result.trace.articleText)
       IN  \E x \in 1..Len(cs) - 1 : cs[x] = "\n" /\ cs[x + 1] = "\n"

\* C10: a URL submission that the form accepts causes one invocation of
\* fetchArticleAction and at most one HTTP GET
\* (violated: the homepage handler fetches the article again)
C10_OneInvocationPerSubmission ==
  \A s \in 1..Len(subs) :
    subs[s].stage /= "rejected" =>
      subs[s].invocations = 1 /\ subs[s].gets <= 1

(***************************************************************************)
(* Properties of wrapText, stated on plain character sequences             *)
(***************************************************************************)
Wrapped == wrap.pc = "returned"

\* the width of a plain character sequence
RECURSIVE WidthOfChars(_)
WidthOfChars(cs) ==
  IF cs = <<>> THEN 0 ELSE CharWidth(cs[1]) + WidthOfChars(Tail(cs))

\* the space-separated words of a plain character sequence
RECURSIVE WordsFrom(_, _, _)
WordsFrom(cs, cur, out) ==
  IF cs = <<>> THEN Append(out, cur)
  ELSE IF cs[1] = SP THEN WordsFrom(Tail(cs), <<>>, Append(out, cur))
       ELSE WordsFrom(Tail(cs), Append(cur, cs[1]), out)

WordsOf(cs) == WordsFrom(cs, <<>>, <<>>)

\* the words of the lines, read line after line
RECURSIVE WordsOfLines(_)
WordsOfLines(ls) ==
  IF ls = <<>> THEN <<>>
  ELSE WordsOf(Expand(ls[1].text)) \o WordsOfLines(Tail(ls))

\* C11: a bullet string whose measured width is at most maxWidth comes back
\* as exactly one line, whose text is the input string
C11_FittingTextIsOneLine ==
  Wrapped =>
    LET cs == Expand(wrap.text)
    IN  WidthOfChars(cs) <= wrap.maxWidth =>
          /\ Len(wrap.lines) = 1
          /\ Expand(wrap.lines[1].text) = cs
          /\ wrap.lines[1].x = wrap.x

\* a string of several words that fills the budget exactly is one line
C11_Witness ==
  /\ Wrapped
  /\ Len(WordsOf(Expand(wrap.text))) >= 2
  /\ WidthOfChars(Expand(wrap.text)) = wrap.maxWidth
  /\ Len(wrap.lines) = 1

\* C12: every line that wrapText returns has a measured width of at most
\* maxWidth
C12_EveryLineFits ==
  Wrapped =>
    \A i \in 1..Len(wrap.lines) :
      WidthOfChars(Expand(wrap.lines[i].text)) <= wrap.maxWidth

\* C13: the words of the returned lines, read line after line, are the
\* space-separated words of the input, each once and in the same order
C13_WordsPreserved ==
  Wrapped => WordsOfLines(wrap.lines) = WordsOf(Expand(wrap.text))

\* a string that is broken into several lines
C13_Witness ==
  /\ Wrapped
  /\ Len(wrap.lines) >= 3
  /\ WordsOfLines(wrap.lines) = WordsOf(Expand(wrap.text))

(***************************************************************************)
(* Properties of generatePngAction, stated on the calls that the 2D        *)
(* context received                                                        *)
(***************************************************************************)
PngDone == png.pc = "done"

\* the call got a canvas and its context
Allocated == png.attempts /= <<>> /\ png.attempts[Len(png.attempts)]

Rendered == PngDone /\ Allocated

StoredText == db[png.summaryId].summaryText

\* the positions in the calls at which a bullet symbol is drawn
Markers ==
  SelectSeq([i \in 1..Len(png.calls) |-> i],
            LAMBDA i : png.calls[i].kind = "marker")

\* the positions of the text lines drawn for the k-th bullet
LinesOfBullet(k) ==
  LET last == IF k < Len(Markers) THEN Markers[k + 1] - 1 ELSE Len(png.calls)
  IN  [j \in 1..(last - Markers[k]) |-> Markers[k] + j]

\* C14: the canvas is created at most twice, the second time only after the
\* first attempt failed; a successful second attempt is followed by the
\* normal rendering and a success; two failures give the RenderInitFailed
\* failure with nothing drawn and no image
C14_CanvasRetriedOnce ==
  PngDone =>
    /\ Len(png.attempts) <= 2
    /\ Len(png.attempts) = 2 => ~png.attempts[1]
    /\ png.attempts = <<FALSE, TRUE>> =>
         /\ png.result.isSuccess /\ png.result.hasData
         /\ \E i \in 1..Len(png.calls) : png.calls[i].kind = "headline"
    /\ png.attempts = <<FALSE, FALSE>> =>
         /\ ~png.result.isSuccess /\ png.result.kind = "RenderInitFailed"
         /\ png.calls = <<>>
         /\ ~png.result.hasData /\ png.result.image = [width |-> 0, height |-> 0]
    /\ png.result.kind = "RenderInitFailed" => png.attempts = <<FALSE, FALSE>>

\* the first attempt failed, the second gave the canvas
C14_Witness ==
  /\ PngDone
  /\ png.attempts = <<FALSE, TRUE>>
  /\ png.result.isSuccess
  /\ Len(Markers) >= 1

\* both attempts failed
C14_WitnessBothFail ==
  PngDone /\ png.attempts = <<FALSE, FALSE>> /\ ~png.result.isSuccess

\* C15: with the canvas allocated the call returns success, whatever the
\* summary text, and the image is 2480 x 3508
C15_RenderingAlwaysSucceeds ==
  Rendered =>
    /\ png.result.isSuccess /\ png.result.hasData
    /\ png.result.image = [width |-> 2480, height |-> 3508]

\* a summary whose bullets run past the bottom of the page
C15_Witness ==
  /\ Rendered
  /\ png.result.isSuccess
  /\ Len(Markers) >= 2
  /\ \E i \in 1..Len(png.calls) : png.calls[i].y > 35080

\* C16: no bullet symbol and no text line is drawn once the cursor is past
\* the printable height, the height less the bottom margin
C16_NothingDrawnPastPrintableHeight ==
  PngDone =>
    \A i \in 1..Len(png.calls) :
      png.calls[i].kind \in {"marker", "line"} =>
        png.calls[i].y <= (3508 - 60) * 10

\* the words of the text lines of the k-th bullet, joined by single spaces
RECURSIVE JoinSpaces(_)
JoinSpaces(ts) ==
  IF ts = <<>> THEN <<>>
  ELSE IF Len(ts) = 1 THEN ts[1]
  ELSE LET half == Len(ts) \div 2
       IN  Concat(Concat(JoinSpaces(SubSeq(ts, 1, half)), <<Run(" ", 1)>>),
                  JoinSpaces(SubSeq(ts, half + 1, Len(ts))))

DrawnBullets ==
  [k \in 1..Len(Markers) |->
     JoinSpaces([j \in 1..Len(LinesOfBullet(k)) |->
                   png.calls[LinesOfBullet(k)[j]].text])]

StoredLines == Split(StoredText, "\n")

BeginsWithMarker(l) ==
  Len(l) >= 2 /\ l[1] = [ch |-> "-", n |-> 1] /\ l[2].ch = " "

\* C17 as stated: the bullets drawn are the lines of the stored summary
\* text that begin with "- ", without the marker, in their order
C17_BulletsAreMarkedLines ==
  Rendered =>
    LET marked == SelectSeq(StoredLines, BeginsWithMarker)
    IN  DrawnBullets = [k \in 1..Len(marked) |-> Substring(marked[k], 2)]

\* C17: the bullets drawn are the lines of the stored summary text that
\* begin with "- " once the whitespace around them is trimmed, trimmed and
\* without the marker, in their order; no other line is drawn
C17_BulletsAreTrimmedMarkedLines ==
  Rendered =>
    LET marked == SelectSeq([i \in 1..Len(StoredLines) |-> Trim(StoredLines[i])],
                            BeginsWithMarker)
    IN  /\ DrawnBullets = [k \in 1..Len(marked) |-> Substring(marked[k], 2)]
        /\ Len(png.calls) = 3 + Len(Markers)
                              + Len(SelectSeq(png.calls,
                                              LAMBDA c : c.kind = "line"))

\* an indented bullet is drawn and a line without the marker is not
C17_Witness ==
  /\ Rendered
  /\ Len(Markers) >= 2
  /\ Len(StoredLines) > Len(Markers)
  /\ \E i \in 1..Len(StoredLines) :
       /\ ~BeginsWithMarker(StoredLines[i])
       /\ BeginsWithMarker(Trim(StoredLines[i]))

\* C18: the white fill of the whole canvas comes before every text call
C18_BackgroundFirst ==
  PngDone =>
    /\ \A i \in 1..Len(png.calls) :
         png.calls[i].op = "fillText" =>
           \E j \in 1..(i - 1) :
             /\ png.calls[j].op = "fillRect"
             /\ png.calls[j].style = "#FFFFFF"
             /\ png.calls[j].x = 0 /\ png.calls[j].y = 0
             /\ png.calls[j].w = 2480 /\ png.calls[j].h = 35080
    /\ Allocated => png.calls /= <<>>

\* a page with a headline, a subheadline and bullets
C18_Witness ==
  /\ Rendered
  /\ Len(Markers) >= 1
  /\ png.calls[1].op = "fillRect"

\* C19: a text line is 1.2 * bulletFontSize below the one before it and a
\* bullet of k lines is followed by the next bullet symbol k + 0.5 line
\* heights lower; the first symbol is at 17.5% of the height, and the
\* symbols of "- A\n- B\n- C" are bulletFontSize * 1.2 * 1.5 apart
C19_CursorAdvance ==
  Rendered =>
    /\ Len(Markers) >= 1 => 1000 * png.calls[Markers[1]].y = 175 * 35080
    /\ \A k \in 1..Len(Markers) :
         LET ls == LinesOfBullet(k)
         IN  /\ \A j \in 1..Len(ls) :
                  10 * png.calls[ls[j]].y
                    = 10 * png.calls[Markers[k]].y + (j - 1) * 42 * 12 * 10
             /\ k < Len(Markers) =>
                  10 * (png.calls[Markers[k + 1]].y - png.calls[Markers[k]].y)
                    = (10 * Len(ls) + 5) * 42 * 12
    /\ StoredText = SampleText =>
         /\ Len(Markers) = 3
         /\ \A k \in 1..2 :
              100 * (png.calls[Markers[k + 1]].y - png.calls[Markers[k]].y)
                = 42 * 12 * 15 * 10

\* a bullet wrapped to several lines is followed by another bullet
C19_Witness ==
  /\ Rendered
  /\ \E k \in 1..(Len(Markers) - 1) : Len(LinesOfBullet(k)) >= 2

\* the three bullets of the example
C19_WitnessSample == Rendered /\ StoredText = SampleText /\ Len(Markers) = 3

(***************************************************************************)
(* Properties of the stored summaries                                      *)
(***************************************************************************)
\* C20: no step changes the originalText or the userId of a stored summary
C20_OriginAndOwnerImmutable ==
  [][\A id \in SummaryIds :
       db[id].exists =>
         /\ db'[id].exists
         /\ db'[id].originalText = db[id].originalText
         /\ db'[id].userId = db[id].userId]_vars

(***************************************************************************)
(* Properties of generateSummaryAction and of refineSummaryAction          *)
(***************************************************************************)
\* the summarizer is called at most twice, the second time only after the
\* first call failed
RetriedOnce(attempts) ==
  /\ Len(attempts) <= 2
  /\ Len(attempts) = 2 => ~attempts[1]

BothFailed(attempts) == attempts = <<FALSE, FALSE>>

\* C21: generateSummaryAction and refineSummaryAction call the summarizer at
\* most twice per invocation, the second call only after the first one
\* failed; when both calls fail the action returns a failure, and the step
\* in which it does so leaves the summaries table as it was
C21_SummarizerRetriedOnce ==
  /\ [](/\ RetriedOnce(gen.attempts) /\ RetriedOnce(refine.attempts)
        /\ BothFailed(gen.attempts) => ~gen.result.isSuccess
        /\ BothFailed(refine.attempts) => ~refine.result.isSuccess)
  /\ [][/\ (gen.pc = "summarizing" /\ BothFailed(gen'.attempts)) => db' = db
        /\ (refine.pc = "summarizing" /\ BothFailed(refine'.attempts))
             => db' = db]_vars

\* one action gave up after two failed calls, the other succeeded on its
\* second call
C21_Witness ==
  /\ gen.pc = "done" /\ BothFailed(gen.attempts) /\ ~gen.result.isSuccess
  /\ refine.pc = "done" /\ refine.attempts = <<FALSE, TRUE>>
  /\ refine.result.isSuccess

\* C22: refineSummaryAction never changes the stored summaryText of a
\* summary whose userId differs from the caller: the step that ends a call
\* on the summary of another user leaves the table as it was
C22_NonOwnerLeavesRecord ==
  [][(/\ refine.pc = "summarizing" /\ refine'.pc = "done"
      /\ db[refine.summaryId].exists
      /\ db[refine.summaryId].userId /= refine.caller)
       => db'[refine.summaryId].summaryText
            = db[refine.summaryId].summaryText]_vars

(***************************************************************************)
(* Who gets an image from generatePngAction                                *)
(***************************************************************************)
\* the caller is signed in and the summary asked for exists and is theirs
PngEntitled ==
  /\ png.caller /= NoUser
  /\ png.summaryId \in SummaryIds
  /\ db[png.summaryId].exists
  /\ db[png.summaryId].userId = png.caller

\* C23: generatePngAction returns image data only when the caller is
\* authenticated, the summary exists and its userId is the caller's id; in
\* every other case the result is a failure, no canvas was created and no
\* image is returned
C23_ImageOnlyForOwner ==
  PngDone =>
    /\ png.result.hasData => PngEntitled
    /\ ~PngEntitled =>
         /\ ~png.result.isSuccess
         /\ png.attempts = <<>> /\ png.calls = <<>>
         /\ ~png.result.hasData /\ png.result.image = NoImage

\* another user asked for the image of the summary of u1
C23_Witness ==
  /\ PngDone
  /\ png.caller = "u2" /\ png.summaryId = "s1" /\ db["s1"].userId = "u1"
  /\ png.result.kind = "Unauthorized"
  /\ png.attempts = <<>>

(***************************************************************************)
(* wrapText breaks greedily                                                *)
(***************************************************************************)
\* C25: a line is committed only when the next word, appended after a
\* space, would make it wider than maxWidth: of every two consecutive
\* returned lines, the first joined by a space with the first word of the
\* second is wider than maxWidth
C25_BreaksGreedily ==
  Wrapped =>
    \A i \in 1..(Len(wrap.lines) - 1) :
      LET line == Expand(wrap.lines[i].text)
          word == WordsOf(Expand(wrap.lines[i + 1].text))[1]
      IN  WidthOfChars(line \o <<SP>> \o word) > wrap.maxWidth

\* a line of two words was committed with room to spare, because the third
\* word did not fit after it
C25_Witness ==
  /\ Wrapped
  /\ Len(wrap.lines) >= 2
  /\ Len(WordsOf(Expand(wrap.lines[1].text))) >= 2
  /\ WidthOfChars(Expand(wrap.lines[1].text)) < wrap.maxWidth

(***************************************************************************)
(* The width budget of a bullet                                            *)
(***************************************************************************)
\* the calls that draw the wrapped lines of the bullets
BulletLineCalls == {i \in 1..Len(png.calls) : png.calls[i].kind = "line"}

\* C26 as stated: the width budget passed to wrapText is the page width
\* minus the left and right margins minus the bullet indent, and bullet
\* text starts at x = margin + indent
C26_BudgetIsWidthLessMarginsLessIndent ==
  Rendered =>
    /\ \A i \in 1..Len(png.wraps) :
         /\ png.wraps[i].maxWidth = width - 2 * margin - bulletIndent
         /\ png.wraps[i].x = margin + bulletIndent
    /\ \A i \in BulletLineCalls : png.calls[i].x = margin + bulletIndent

\* C26 amended: the width budget passed to wrapText is the page width minus
\* three times the margin (2300), and bullet text starts at
\* x = margin + indent (90)
C26_BudgetIsWidthLessThreeMargins ==
  Rendered =>
    /\ \A i \in 1..Len(png.wraps) :
         /\ png.wraps[i].maxWidth = width - 3 * margin
         /\ png.wraps[i].x = margin + bulletIndent
    /\ \A i \in BulletLineCalls : png.calls[i].x = margin + bulletIndent

\* an image with a bullet that was wrapped into several lines
C26_Witness ==
  /\ Rendered
  /\ Len(png.wraps) >= 1
  /\ Cardinality(BulletLineCalls) > Len(png.wraps)

(***************************************************************************)
(* One submission of the form at a time                                    *)
(***************************************************************************)
\* the submissions whose fetchArticleAction call was issued by the form and
\* whose onSubmit has not yet resumed after its await
FormCallsInFlight == {s \in 1..MaxSubmits : call[Form(s)].st /= "free"}

\* C27: at most one fetchArticleAction call issued by the form is in flight
\* at any time, and the form is marked as submitting while it is
C27_OneFormCallInFlight ==
  /\ Cardinality(FormCallsInFlight) <= 1
  /\ FormCallsInFlight /= {} => isSubmitting

\* the form has its second call in flight, after the first one completed
\* and while the homepage handler of the first is still fetching
C27_Witness ==
  /\ Len(subs) = 2
  /\ call[Form(2)].st = "pending"
  /\ call[Form(1)].st = "free"
  /\ call[Home(1)].st = "pending"

(***************************************************************************)
(* Properties of the summary page                                          *)
(***************************************************************************)
\* the bullets that generatePngAction reads in a text
BulletsOfText(text) ==
  LET ls == Split(text, "\n")
      marked == SelectSeq([i \in 1..Len(ls) |-> Trim(ls[i])], BeginsWithMarker)
  IN  [k \in 1..Len(marked) |-> Substring(marked[k], 2)]

\* C24: a PNG generated from the summary page is rendered from the summary
\* text the client holds: the bullets of the image that comes back are those
\* of the summaryText the page had when it asked for the image, unsaved
\* edits included
C24_ImageShowsClientText ==
  (page.isGeneratingPng /\ Rendered /\ png.result.isSuccess)
    => DrawnBullets = BulletsOfText(page.pngFor)

\* C28: whenever no save or refine request is in flight and the user has
\* not edited since the last completed save or refine, the stored
\* summaryText equals the summaryText held by the client
C28_StoredEqualsClientWhenQuiet ==
  (saves = <<>> /\ refine.pc = "idle" /\ ~page.isRefining /\ ~page.unsaved)
    => db[page.summary.id].summaryText = page.summaryText

\* C29: the text displayed in the editor always equals the summaryText
\* state of the page, after every edit and after every successful
\* refinement
C29_EditorShowsSummaryText == page.value = page.summaryText

\* C30: after every refine or PNG request, whether it succeeds, returns a
\* failure or throws, the flag of the request eventually becomes false
\* again, which re-enables its buttons
C30_FlagsEventuallyCleared ==
  /\ (page.isRefining /\ refine.pc = "done") ~> ~page.isRefining
  /\ (page.isGeneratingPng /\ png.pc = "done") ~> ~page.isGeneratingPng

\* a request was rejected and both flags are clear
C30_Witness ==
  /\ page.toast = "threw"
  /\ ~page.isRefining /\ ~page.isGeneratingPng
  /\ refine.pc = "idle" /\ png.pc = "idle"
====
